---- MODULE Spec2Model ----
(***************************************************************************)
(* Model of the experiment-collection builder                              *)
(* (make-experiment-collection.py, lib/helpers.py) and of the reader       *)
(* (lib/experiment_collection.py).                                         *)
(*                                                                         *)
(* A container (HDF5 file) is a set of datasets [key, cols, rows]; a key   *)
(* is [table, sample] with sample = <<>> for a top-level table such as     *)
(* /cags and a name for a per-sample dataset such as /abundance/<name>.    *)
(* Names are sequences of characters so that canonicalisation is computed. *)
(* Floating values are exact: a mean is a reduced fraction, a CLR value is *)
(* kept symbolically as log10(a / gmean(values)).                          *)
(* Removing the builder's own temporary folder (shutil.rmtree) is taken to *)
(* succeed.                                                                *)
(***************************************************************************)
EXTENDS Integers, Sequences, FiniteSets, TLC

VARIABLES
    args,       \* the arguments of make_experiment_collection
    pc,         \* position of the builder in make_experiment_collection
    folder,     \* TRUE iff the build's temporary folder (with log.txt) exists
    hdf5,       \* the working copy <temp>/experiment.hdf5: [exists, data, packed]
    storeOpen,  \* TRUE iff the HDFStore handle on the working copy is open
    cags,       \* the local `cags`: [loaded, items]
    sheet,      \* the sample sheet once read: sequence of <<raw name, doc>>
    idx,        \* index of the next sample of the sheet
    destHdf5,   \* the file at output_hdf5: [exists, data, packed]
    destLog,    \* TRUE iff a log was copied to output_logs
    exit,       \* "running", "zero" or "nonzero": the process exit status
    steps,      \* history: the ingestion steps run, in order
    written,    \* history: keys of the tables this build wrote
    failed,     \* history: the stage whose failure ended the build, or "none"
    readers,    \* per ExperimentCollection instance: [open, all_samples]
    sgaCache,   \* lru_cache of sample_gene_abundance: keys, least recent first
    scaCache,   \* lru_cache of sample_cag_abundance: keys, least recent first
    last,       \* the last accessor call and what it returned
    calls,      \* number of accessor calls made
    cwgCache,   \* lru_cache of contigs_with_gene: [key, val], least recent first
    cdCache,    \* lru_cache of contig_df: [key, val], least recent first
    lastSingle  \* the last single-item accessor call and what it returned

bvars == <<args, pc, folder, hdf5, storeOpen, cags, sheet, idx, destHdf5,
           destLog, exit, steps, written, failed>>

rvars == <<readers, sgaCache, scaCache, last, calls, cwgCache, cdCache, lastSingle>>

-----------------------------------------------------------------------------
(* Names and containers *)

S1 == <<"s", "1">>
S2 == <<"s", "2">>
SX == <<"x">>
RawExample == <<"s", "a", "m", "p", "l", "e", ".", "1", "-", "a">>
RawDot == <<"a", ".", "b">>
RawDash == <<"a", "-", "b">>

Key(t) == [table |-> t, sample |-> <<>>]
SampleKey(t, s) == [table |-> t, sample |-> s]

NoFile == [exists |-> FALSE, data |-> {}, packed |-> FALSE]
File(d, p) == [exists |-> TRUE, data |-> d, packed |-> p]

Keys(data) == {ds.key : ds \in data}
HasKey(data, k) == k \in Keys(data)
Get(data, k) == CHOOSE ds \in data : ds.key = k

\* DataFrame.to_hdf(store, key, format="table"): an empty frame writes no
\* node; otherwise the node is replaced.
HdfPut(data, k, cols, rows) ==
    IF Len(rows) = 0 THEN data
    ELSE {ds \in data : ds.key # k} \cup {[key |-> k, cols |-> cols, rows |-> rows]}

\* DataFrame.to_hdf(..., append=True): rows are appended to an existing
\* table of the same columns; other columns are refused.
CanHdfAppend(data, k, cols, rows) ==
    Len(rows) = 0 \/ ~HasKey(data, k) \/ Get(data, k).cols = cols

HdfAppend(data, k, cols, rows) ==
    IF Len(rows) = 0 THEN data
    ELSE IF HasKey(data, k)
         THEN {ds \in data : ds.key # k}
              \cup {[key |-> k, cols |-> cols, rows |-> Get(data, k).rows \o rows]}
         ELSE data \cup {[key |-> k, cols |-> cols, rows |-> rows]}

-----------------------------------------------------------------------------
(* Sample-name canonicalisation, make-experiment-collection.py lines 121-122 *)

Replace(name, k) ==
    [i \in 1..Len(name) |-> IF name[i] = k THEN "_" ELSE name[i]]

CanonicalName(name) == Replace(Replace(name, "."), "-")

-----------------------------------------------------------------------------
(* Exact arithmetic for np.mean *)

RECURSIVE Sum(_)
Sum(s) == IF Len(s) = 0 THEN 0 ELSE s[1] + Sum(Tail(s))

Abs(n) == IF n < 0 THEN 0 - n ELSE n

RECURSIVE Gcd(_, _)
Gcd(a, b) == IF b = 0 THEN a ELSE Gcd(b, a % b)

\* A fraction n/d in lowest terms; d = 0 stands for nan (np.mean of []).
Frac(n, d) ==
    IF d = 0 THEN [n |-> 0, d |-> 0]
    ELSE LET g == Gcd(Abs(n), d) IN [n |-> n \div g, d |-> d \div g]

Whole(n) == [n |-> n, d |-> 1]

NpMean(s) == Frac(Sum(s), Len(s))

\* v > 0 for a float v; nan > 0 is False.
Positive(v) == v.d > 0 /\ v.n > 0

-----------------------------------------------------------------------------
(* lib/helpers.py *)

\* read_json: the file must be readable JSON and the document a dict.
read_json(doc) == doc.kind = "dict"

RECURSIVE CagRows(_)
CagRows(items) ==
    IF Len(items) = 0 THEN <<>>
    ELSE [i \in 1..Len(items[1].genes) |->
             [cag |-> items[1].cag, gene |-> items[1].genes[i]]]
         \o CagRows(Tail(items))

\* add_cags_to_store without the assertion that every value is a list
add_cags_unchecked(doc, data, ioOk) ==
    LET rows == CagRows(doc.items)
        ok   == read_json(doc) /\ Len(rows) > 0 /\ ioOk
    IN  [ok   |-> ok,
         data |-> IF ok THEN HdfPut(data, Key("cags"), <<"cag", "gene">>, rows)
                  ELSE data,
         cags |-> IF ok THEN [loaded |-> TRUE, items |-> doc.items]
                  ELSE [loaded |-> FALSE, items |-> <<>>]]

\* add_cags_to_store: [ok, data, cags]; on failure nothing was written.
add_cags_to_store(doc, data, ioOk) ==
    LET isDictOfLists == read_json(doc)
                         /\ \A i \in 1..Len(doc.items) : doc.items[i].islist
        rows == CagRows(doc.items)
        ok   == isDictOfLists /\ Len(rows) > 0 /\ ioOk
    IN  [ok   |-> ok,
         data |-> IF ok THEN HdfPut(data, Key("cags"), <<"cag", "gene">>, rows)
                  ELSE data,
         cags |-> IF ok THEN [loaded |-> TRUE, items |-> doc.items]
                  ELSE [loaded |-> FALSE, items |-> <<>>]]

RequiredKeys == {"length", "coverage", "nreads", "depth", "id"}

AbundanceCols == <<"id", "depth", "length", "coverage", "nreads", "sample">>
CagAbundanceCols == <<"cag_id", "depth", "sample">>

\* sample_dat[abundance_key] <= 0: the elementwise comparison, a Series.
SeriesLeqZero(col) == [i \in 1..Len(col) |-> col[i] <= 0]

\* `if <Series>:` (line 225). pandas refuses to give a Series a truth value
\* ("The truth value of a Series is ambiguous"): ValueError, whatever the
\* length and the values of the Series.
SeriesBool(series) == "raise"

\* sample_dat.set_index("id")["depth"].to_dict(), then .get(gene, 0):
\* the last record of a gene wins, an absent gene counts 0.
AbundDictGet(recs, gene) ==
    LET at == {i \in 1..Len(recs) : recs[i].id = gene}
    IN  IF at = {} THEN 0
        ELSE recs[CHOOSE i \in at : \A j \in at : j <= i].depth

\* np.mean([abund_dict.get(gene_id, 0) for gene_id in gene_id_list])
CagMean(recs, genes) ==
    NpMean([i \in 1..Len(genes) |-> AbundDictGet(recs, genes[i])])

\* The symbolic value log10(a / gmean(values)).
Clr(a, values) == [log10of |-> a, gmean |-> values]

\* add_abundance_to_store with the default keys: [ok, data, wrote]. `wrote`
\* is the set of keys written before the function returned or raised.
add_abundance_to_store(sample_name, doc, data, cagsArg, ioOk) ==
    LET recs     == doc.recs
        n        == Len(recs)
        \* lines 184-199: the document, the results list, the keys of each d
        valid    == /\ read_json(doc)
                    /\ doc.hasResults
                    /\ doc.isList
                    /\ \A i \in 1..n : RequiredKeys \subseteq recs[i].keys
        \* lines 202-214: float(d["depth"]) of every record
        floats   == \A i \in 1..n : recs[i].num
        \* line 225: a frame built from no record has no depth column
        hasDepth == n > 0
        depthCol == [i \in 1..n |-> recs[i].depth]
        truth    == SeriesBool(SeriesLeqZero(depthCol))
        reached  == valid /\ floats /\ hasDepth /\ truth # "raise"
        withClr  == truth = "false"
        geneCols == IF withClr THEN AbundanceCols \o <<"clr">> ELSE AbundanceCols
        geneRow(i) ==
            [id |-> recs[i].id, depth |-> Whole(recs[i].depth),
             length |-> recs[i].length, coverage |-> recs[i].coverage,
             nreads |-> recs[i].nreads, sample |-> sample_name,
             clr |-> IF withClr THEN Clr(Whole(recs[i].depth), depthCol)
                     ELSE Clr(Whole(0), <<>>)]
        geneRows == [i \in 1..n |-> geneRow(i)]
        \* lines 238-244: append to /abundance
        geneOk   == reached /\ ioOk
                    /\ CanHdfAppend(data, Key("abundance"), geneCols, geneRows)
        data1    == IF geneOk
                    THEN HdfAppend(data, Key("abundance"), geneCols, geneRows)
                    ELSE data
        \* lines 252-264: the mean of each CAG, CAGs with mean <= 0 removed
        items    == cagsArg.items
        kept     == SelectSeq([i \in 1..Len(items) |->
                                  [cag_id |-> items[i].cag,
                                   mean   |-> CagMean(recs, items[i].genes)]],
                              LAMBDA r : Positive(r.mean))
        \* lines 270-273: sample_gmean is bound only where the CLR was
        \* computed; the lambda runs once per kept CAG
        gmeanOk  == withClr \/ Len(kept) = 0
        cagCols  == CagAbundanceCols \o <<"clr">>
        cagRows  == [i \in 1..Len(kept) |->
                        [cag_id |-> kept[i].cag_id, depth |-> kept[i].mean,
                         sample |-> sample_name,
                         clr |-> Clr(kept[i].mean, depthCol)]]
        cagOk    == geneOk /\ gmeanOk
                    /\ CanHdfAppend(data1, Key("cag_abundance"), cagCols, cagRows)
        data2    == IF cagOk
                    THEN HdfAppend(data1, Key("cag_abundance"), cagCols, cagRows)
                    ELSE data1
    IN  IF cagsArg.loaded
        THEN [ok |-> cagOk, data |-> data2,
              wrote |-> (IF geneOk /\ n > 0 THEN {Key("abundance")} ELSE {})
                  \cup (IF cagOk /\ Len(kept) > 0 THEN {Key("cag_abundance")} ELSE {})]
        ELSE [ok |-> geneOk, data |-> data1,
              wrote |-> IF geneOk /\ n > 0 THEN {Key("abundance")} ELSE {}]

-----------------------------------------------------------------------------
(* Delimited tables.  A cell is a string (a sequence of symbols, "," being *)
(* the one separator symbol), an integer, or NaN (an empty cell).          *)

NaN == [t |-> "nan", s |-> <<>>, n |-> 0]
Str(x) == [t |-> "str", s |-> x, n |-> 0]
Num(x) == [t |-> "int", s |-> <<>>, n |-> x]

IsNaN(cell) == cell.t = "nan"

\* df.fillna("none", inplace=True), line 126
FillNa(row) == [c \in DOMAIN row |-> IF IsNaN(row[c]) THEN Str(<<"none">>) ELSE row[c]]

fillna(rows) == [i \in 1..Len(rows) |-> FillNa(rows[i])]

\* df.dropna(): the rows without a NaN cell
dropna(rows) == SelectSeq(rows, LAMBDA r : \A c \in DOMAIN r : ~IsNaN(r[c]))

\* str.split(","): always at least one token
RECURSIVE Split(_, _)
Split(str, cur) ==
    IF Len(str) = 0 THEN <<cur>>
    ELSE IF str[1] = "," THEN <<cur>> \o Split(Tail(str), <<>>)
         ELSE Split(Tail(str), Append(cur, str[1]))

\* format_eggnog_ko_df: one (gene, ko) row per token of each row whose
\* KEGG_KOs is a non-empty string
RECURSIVE KoRows(_)
KoRows(rows) ==
    IF Len(rows) = 0 THEN <<>>
    ELSE LET r == rows[1]
             v == r.KEGG_KOs
             toks == Split(v.s, <<>>)
         IN  (IF v.t = "str" /\ Len(v.s) > 0
              THEN [i \in 1..Len(toks) |-> [gene |-> r.query_name, ko |-> Str(toks[i])]]
              ELSE <<>>)
             \o KoRows(Tail(rows))

format_eggnog_ko_df(rows) == KoRows(rows)

\* format_eggnog_cluster_df: the two columns renamed, then dropna()
format_eggnog_cluster_df(rows) ==
    dropna([i \in 1..Len(rows) |->
               [gene |-> rows[i].query_name,
                eggnog_cluster |-> rows[i].seed_eggNOG_ortholog]])

\* lambda df: df.loc[df["taxid"] != 0, ["gene", "taxid"]]
TaxonomyFilter(rows) ==
    LET keep == SelectSeq(rows, LAMBDA r : ~(r.taxid.t = "int" /\ r.taxid.n = 0))
    IN  [i \in 1..Len(keep) |-> [gene |-> keep[i].gene, taxid |-> keep[i].taxid]]

\* lambda df: df
MetadataFilter(rows) == rows

\* add_table_to_store, one pass of its loop (lines 129-152): the filtered
\* frame must hold no NaN, and replaces the table
WriteFiltered(data, name, cols, rows, ioOk) ==
    LET ok == Len(rows) = Len(dropna(rows)) /\ ioOk
    IN  [ok |-> ok,
         data |-> IF ok THEN HdfPut(data, Key(name), cols, rows) ELSE data,
         wrote |-> IF ok /\ Len(rows) > 0 THEN {Key(name)} ELSE {}]

\* add_table_to_store for the metadata table
add_metadata_to_store(doc, data, ioOk) ==
    IF ~doc.readable THEN [ok |-> FALSE, data |-> data, wrote |-> {}]
    ELSE WriteFiltered(data, "metadata", doc.cols,
                       MetadataFilter(fillna(doc.rows)), ioOk)

\* add_table_to_store for the taxonomic classification
add_taxonomy_to_store(doc, data, ioOk) ==
    IF ~doc.readable THEN [ok |-> FALSE, data |-> data, wrote |-> {}]
    ELSE WriteFiltered(data, "taxonomic_classification", <<"gene", "taxid">>,
                       TaxonomyFilter(fillna(doc.rows)), ioOk)

\* add_table_to_store for the eggNOG table: eggnog_ko, then eggnog_cluster
add_eggnog_to_store(doc, data, ioOk1, ioOk2) ==
    IF ~doc.readable THEN [ok |-> FALSE, data |-> data, wrote |-> {}]
    ELSE LET df == fillna(doc.rows)
             ko == WriteFiltered(data, "eggnog_ko", <<"gene", "ko">>,
                                 format_eggnog_ko_df(df), ioOk1)
             cl == WriteFiltered(ko.data, "eggnog_cluster",
                                 <<"gene", "eggnog_cluster">>,
                                 format_eggnog_cluster_df(df), ioOk2)
         IN  IF ~ko.ok THEN ko
             ELSE [ok |-> cl.ok, data |-> cl.data, wrote |-> ko.wrote \cup cl.wrote]

-----------------------------------------------------------------------------
(* Bounds and the inputs a build is run on *)

MaxSamples == 2     \* samples in the sample sheet

RawNames == {S1, RawExample, RawDot, RawDash}

SeqsUpTo(S, n) == UNION {[1..k -> S] : k \in 0..n}

Rec(g, a) == [keys |-> RequiredKeys, id |-> g, depth |-> a, num |-> TRUE,
              length |-> 100, coverage |-> 1, nreads |-> 5]

Doc(recs) == [kind |-> "dict", hasResults |-> TRUE, isList |-> TRUE, recs |-> recs]

\* The documents that follow the per-sample abundance format
GoodSampleDocs ==
    { Doc(<<Rec("g1", 10), Rec("g2", 30)>>),
      Doc(<<Rec("g1", 10)>>),
      Doc(<<Rec("g1", 0), Rec("g2", 30)>>),
      Doc(<<Rec("g1", -10), Rec("g2", 10)>>),
      Doc(<<Rec("g3", 30)>>),
      Doc(<<Rec("g1", 10), Rec("g1", 30)>>),
      Doc(<<>>) }

\* Unreadable file, a list-shaped document, no results key, results not a
\* list, a record lacking a key, a depth float() refuses
BadSampleDocs ==
    { [Doc(<<>>) EXCEPT !.kind = "unreadable"],
      [Doc(<<>>) EXCEPT !.kind = "list"],
      [Doc(<<>>) EXCEPT !.hasResults = FALSE],
      [Doc(<<>>) EXCEPT !.isList = FALSE],
      Doc(<<[Rec("g1", 10) EXCEPT !.keys = RequiredKeys \ {"nreads"}]>>),
      Doc(<<[Rec("g1", 10) EXCEPT !.num = FALSE]>>) }

SampleDocs == GoodSampleDocs \cup BadSampleDocs

CagItem(c, genes) == [cag |-> c, islist |-> TRUE, genes |-> genes]

GoodCagDocs ==
    { [kind |-> "dict", items |-> <<CagItem("c1", <<"g1", "g2">>)>>],
      [kind |-> "dict", items |-> <<CagItem("c1", <<"g1", "g2">>),
                                    CagItem("c2", <<"g3">>)>>] }

\* A list instead of a mapping; a mapping whose value is the string "g1",
\* which iterates as its characters
MisshapenCagDocs ==
    { [kind |-> "list", items |-> <<>>],
      [kind |-> "dict",
       items |-> <<[cag |-> "c1", islist |-> FALSE, genes |-> <<"g", "1">>]>>] }

BadCagDocs ==
    MisshapenCagDocs
    \cup { [kind |-> "unreadable", items |-> <<>>],
           [kind |-> "dict", items |-> <<CagItem("c1", <<>>)>>] }

CagDocs == GoodCagDocs \cup BadCagDocs

\* The sample sheet: a dict raw name -> path, in the order of the document
SheetDocs ==
    { [kind |-> "dict", names |-> n] :
        n \in {q \in SeqsUpTo(RawNames, MaxSamples) :
                 \A i, j \in 1..Len(q) : i # j => q[i] # q[j]} }
    \cup { [kind |-> "list", names |-> <<>>], [kind |-> "unreadable", names |-> <<>>] }

MetadataDocs ==
    { [readable |-> FALSE, cols |-> <<>>, rows |-> <<>>],
      [readable |-> TRUE, cols |-> <<"sample", "group">>,
       rows |-> <<[sample |-> Str(<<"s1">>), group |-> Str(<<"a">>)],
                  [sample |-> Str(<<"s2">>), group |-> NaN]>>] }

TaxonomyDocs ==
    { [readable |-> FALSE, rows |-> <<>>],
      [readable |-> TRUE,
       rows |-> <<[gene |-> Str(<<"g1">>), taxid |-> Num(562), evalue |-> Num(0)],
                  [gene |-> Str(<<"g2">>), taxid |-> Num(0), evalue |-> Num(0)]>>] }

EggnogRow(g, ko, cl) == [query_name |-> Str(<<g>>), KEGG_KOs |-> ko,
                         seed_eggNOG_ortholog |-> cl]

EggnogDocs ==
    { [readable |-> FALSE, rows |-> <<>>],
      [readable |-> TRUE,
       rows |-> <<EggnogRow("g1", Str(<<"K1", ",", "K2">>), Str(<<"e1">>))>>],
      [readable |-> TRUE,
       rows |-> <<EggnogRow("g1", Str(<<"K1">>), Str(<<"e1">>)),
                  EggnogRow("g2", NaN, NaN)>>] }

\* Containers a build can be asked to extend (--integrated-assembly): the
\* assembly's gene positions, a collection holding per-sample datasets, and
\* a collection holding tables of an earlier build.
PriorRow(g, a, vals, smp) ==
    [id |-> g, depth |-> Whole(a), length |-> 100, coverage |-> 1, nreads |-> 5,
     sample |-> smp, clr |-> Clr(Whole(a), vals)]

PriorCagRow(c, m, vals, smp) ==
    [cag_id |-> c, depth |-> Whole(m), sample |-> smp, clr |-> Clr(Whole(m), vals)]

\* Names the reader is given for contigs and gene clusters
K1 == <<"k", "1">>
K2 == <<"k", "2">>
KX == <<"k", "x">>
G1 == <<"g", "1">>
G2 == <<"g", "2">>
GX == <<"g", "x">>

\* One row of gene_positions; coordinates are stored as text
PositionRow(contig, cluster, start, end) ==
    [seqname |-> contig, cluster |-> cluster, start |-> Str(start), end |-> Str(end),
     strand |-> "+", product |-> "p", ID |-> contig]

PositionCols == <<"seqname", "cluster", "start", "end", "strand", "product", "ID">>

AssemblyData ==
    { [key |-> Key("gene_positions"),
       cols |-> PositionCols,
       rows |-> <<PositionRow(K1, G1, <<"2", "0">>, <<"9", "0">>),
                  PositionRow(K1, G2, <<"1">>, <<"1", "5">>),
                  PositionRow(K2, G1, <<"5">>, <<"6", "0">>)>>] }

PerSampleData ==
    { [key |-> SampleKey("abundance", S1), cols |-> AbundanceCols \o <<"clr">>,
       rows |-> <<PriorRow("g1", 10, <<10, 30>>, S1),
                  PriorRow("g2", 30, <<10, 30>>, S1)>>],
      [key |-> SampleKey("abundance", S2), cols |-> AbundanceCols,
       rows |-> <<PriorRow("g1", 5, <<>>, S2)>>],
      [key |-> SampleKey("cag_abundance", S1), cols |-> CagAbundanceCols \o <<"clr">>,
       rows |-> <<PriorCagRow("c1", 20, <<10, 30>>, S1)>>],
      [key |-> SampleKey("cag_abundance", SX), cols |-> CagAbundanceCols \o <<"clr">>,
       rows |-> <<PriorCagRow("c1", 7, <<7>>, SX)>>] }

EarlierBuildData ==
    { [key |-> Key("cags"), cols |-> <<"cag", "gene">>,
       rows |-> <<[cag |-> "c9", gene |-> "g9"]>>],
      [key |-> Key("metadata"), cols |-> <<"sample", "group">>,
       rows |-> <<[sample |-> Str(<<"s0">>), group |-> Str(<<"z">>)]>>] }

PriorFiles == { File(AssemblyData, TRUE),
                File(AssemblyData \cup PerSampleData, TRUE),
                File(EarlierBuildData, TRUE) }

-----------------------------------------------------------------------------
(* make-experiment-collection.py: make_experiment_collection *)

NoCags == [loaded |-> FALSE, items |-> <<>>]

\* One entry of the history `steps`: the step, for a sample its canonical
\* name, its position in the sheet and its records, what kind of input the
\* step was given, whether the environment let its I/O succeed, whether the
\* step returned (ok) or raised, and whether `cags` held a membership.
Entry(step, name, pos, input, recs, io, ok) ==
    [step |-> step, sample |-> name, pos |-> pos, input |-> input, recs |-> recs,
     io |-> io, ok |-> ok, cagsLoaded |-> cags.loaded]

CagDocTag(doc) ==
    IF doc.kind # "dict" THEN doc.kind
    ELSE IF \E i \in 1..Len(doc.items) : ~doc.items[i].islist THEN "nonlist"
    ELSE IF Len(CagRows(doc.items)) = 0 THEN "empty"
    ELSE "good"

SampleDocTag(doc) ==
    IF doc.kind # "dict" THEN doc.kind
    ELSE IF ~doc.hasResults \/ ~doc.isList THEN "misshapen"
    ELSE IF \E i \in 1..Len(doc.recs) :
              ~(RequiredKeys \subseteq doc.recs[i].keys) \/ ~doc.recs[i].num
         THEN "badrecord"
    ELSE "good"

TableDocTag(doc) == IF doc.readable THEN "good" ELSE "unreadable"

BuildInit ==
    /\ args \in [cags : BOOLEAN, sheet : BOOLEAN, metadata : BOOLEAN,
                 taxonomy : BOOLEAN, eggnog : BOOLEAN,
                 prior : {"none", "local", "s3"},
                 out_hdf5 : {"local", "s3"}, out_logs : {"local", "s3"},
                 temp_exists : BOOLEAN]
    /\ pc = "start"
    /\ folder = FALSE
    /\ hdf5 = NoFile
    /\ storeOpen = FALSE
    /\ cags = NoCags
    /\ sheet = <<>>
    /\ idx = 1
    /\ destHdf5 = NoFile
    /\ destLog = FALSE
    /\ exit = "running"
    /\ steps = <<>>
    /\ written = {}
    /\ failed = "none"

\* exit_and_clean_up (helpers.py 290-305): the temporary folder is removed
\* and sys.exit is given the exception, which makes the status non-zero.
exit_and_clean_up(stage) ==
    /\ folder' = FALSE
    /\ hdf5' = NoFile
    /\ storeOpen' = FALSE
    /\ exit' = "nonzero"
    /\ pc' = "aborted"
    /\ failed' = stage

\* An exception no handler catches: the interpreter prints the traceback
\* and exits with a non-zero status; nothing is removed.
Uncaught(stage) ==
    /\ exit' = "nonzero"
    /\ pc' = "uncaught"
    /\ failed' = stage
    /\ UNCHANGED <<folder, hdf5, storeOpen>>

Goto(stage) ==
    /\ pc' = stage
    /\ UNCHANGED <<exit, failed>>

\* Start without the assertion of lines 40-43
StartUnchecked ==
    /\ pc = "start"
    /\ IF args.temp_exists
       THEN /\ folder' = TRUE
            /\ Goto("copy_prior")
       ELSE /\ exit' = "nonzero"
            /\ pc' = "rejected"
            /\ failed' = "start"
            /\ UNCHANGED folder
    /\ UNCHANGED <<args, hdf5, storeOpen, cags, sheet, idx, destHdf5, destLog,
                   steps, written>>
    /\ UNCHANGED rvars

\* lines 36-67: the two assertions, then the new temporary folder and log
Start ==
    /\ pc = "start"
    /\ IF /\ args.temp_exists
          /\ \/ args.sheet \/ args.cags \/ args.metadata \/ args.taxonomy
             \/ args.eggnog \/ args.prior # "none"
       THEN /\ folder' = TRUE
            /\ Goto("copy_prior")
       ELSE /\ exit' = "nonzero"
            /\ pc' = "rejected"
            /\ failed' = "start"
            /\ UNCHANGED folder
    /\ UNCHANGED <<args, hdf5, storeOpen, cags, sheet, idx, destHdf5, destLog,
                   steps, written>>
    /\ UNCHANGED rvars

\* lines 72-90: the container to extend is downloaded or copied in
CopyPrior ==
    /\ pc = "copy_prior"
    /\ IF args.prior = "none"
       THEN Goto("open_store") /\ UNCHANGED <<folder, hdf5, storeOpen>>
       ELSE \E file \in PriorFiles \cup {NoFile}, copyOk \in BOOLEAN :
              IF file.exists /\ copyOk
              THEN hdf5' = file /\ Goto("open_store") /\ UNCHANGED <<folder, storeOpen>>
              ELSE exit_and_clean_up("copy_prior")
    /\ UNCHANGED <<args, cags, sheet, idx, destHdf5, destLog, steps, written>>
    /\ UNCHANGED rvars

\* line 93: pd.HDFStore(local_hdf5_fp, mode="a"), outside any try
OpenStore ==
    /\ pc = "open_store"
    /\ \E openOk \in BOOLEAN :
         IF openOk
         THEN /\ hdf5' = IF hdf5.exists THEN hdf5 ELSE File({}, FALSE)
              /\ storeOpen' = TRUE
              /\ Goto("cags")
              /\ UNCHANGED folder
         ELSE Uncaught("open_store")
    /\ UNCHANGED <<args, cags, sheet, idx, destHdf5, destLog, steps, written>>
    /\ UNCHANGED rvars

\* The blocks in another order: the metadata table ahead of the samples
StageAfterSwapped(stage) ==
    CASE stage = "cags"     -> "metadata"
      [] stage = "metadata" -> "sheet"
      [] stage = "sheet"    -> "samples"
      [] stage = "samples"  -> "taxonomy"
      [] stage = "taxonomy" -> "eggnog"
      [] stage = "eggnog"   -> "close"

\* The order of the blocks of lines 95-184
StageAfter(stage) ==
    CASE stage = "cags"     -> "sheet"
      [] stage = "sheet"    -> "samples"
      [] stage = "samples"  -> "metadata"
      [] stage = "metadata" -> "taxonomy"
      [] stage = "taxonomy" -> "eggnog"
      [] stage = "eggnog"   -> "close"

\* What a step that returned leaves in the working copy
Stored(r) ==
    /\ hdf5' = [hdf5 EXCEPT !.data = r.data,
                            !.packed = IF r.wrote = {} THEN @ ELSE FALSE]
    /\ written' = written \cup r.wrote
    /\ UNCHANGED <<folder, storeOpen>>

\* lines 95-103: CAG membership
IngestCags ==
    /\ pc = "cags"
    /\ IF args.cags
       THEN \E doc \in CagDocs, ioOk \in BOOLEAN :
              LET r == add_cags_to_store(doc, hdf5.data, ioOk)
              IN  /\ steps' = Append(steps, Entry("cags", <<>>, 0, CagDocTag(doc), <<>>, ioOk, r.ok))
                  /\ IF r.ok
                     THEN /\ Stored([data |-> r.data, wrote |-> {Key("cags")}])
                          /\ cags' = r.cags
                          /\ Goto(StageAfter("cags"))
                     ELSE /\ exit_and_clean_up("cags")
                          /\ UNCHANGED <<cags, written>>
       ELSE /\ cags' = NoCags
            /\ Goto(StageAfter("cags"))
            /\ UNCHANGED <<folder, hdf5, storeOpen, steps, written>>
    /\ UNCHANGED <<args, sheet, idx, destHdf5, destLog>>
    /\ UNCHANGED rvars

\* lines 106-116: the sample sheet is read and must be a dict
ReadSheet ==
    /\ pc = "sheet"
    /\ IF args.sheet
       THEN \E doc \in SheetDocs :
              IF read_json(doc)
              THEN /\ sheet' = doc.names
                   /\ idx' = 1
                   /\ Goto(IF Len(doc.names) = 0 THEN StageAfter("samples")
                           ELSE StageAfter("sheet"))
                   /\ UNCHANGED <<folder, hdf5, storeOpen>>
              ELSE /\ exit_and_clean_up("sheet")
                   /\ UNCHANGED <<sheet, idx>>
       ELSE /\ Goto(StageAfter("samples"))
            /\ UNCHANGED <<folder, hdf5, storeOpen, sheet, idx>>
    /\ UNCHANGED <<args, cags, destHdf5, destLog, steps, written>>
    /\ UNCHANGED rvars

\* lines 120-129: one turn of the loop over the sample sheet
IngestSample ==
    /\ pc = "samples"
    /\ idx <= Len(sheet)
    /\ \E doc \in SampleDocs, ioOk \in BOOLEAN :
         LET sample_name == CanonicalName(sheet[idx])
             r == add_abundance_to_store(sample_name, doc, hdf5.data, cags, ioOk)
         IN  /\ steps' = Append(steps, Entry("sample", sample_name, idx,
                                             SampleDocTag(doc), doc.recs, ioOk, r.ok))
             /\ IF r.ok
                THEN /\ Stored(r)
                     /\ idx' = idx + 1
                     /\ Goto(IF idx = Len(sheet) THEN StageAfter("samples") ELSE pc)
                ELSE /\ exit_and_clean_up("samples")
                     /\ UNCHANGED <<idx, written>>
    /\ UNCHANGED <<args, cags, sheet, destHdf5, destLog>>
    /\ UNCHANGED rvars

\* lines 131-142: the metadata table
IngestMetadata ==
    /\ pc = "metadata"
    /\ IF args.metadata
       THEN \E doc \in MetadataDocs, ioOk \in BOOLEAN :
              LET r == add_metadata_to_store(doc, hdf5.data, ioOk)
              IN  /\ steps' = Append(steps, Entry("metadata", <<>>, 0, TableDocTag(doc),
                                                  doc.rows, ioOk, r.ok))
                  /\ IF r.ok
                     THEN Stored(r) /\ Goto(StageAfter("metadata"))
                     ELSE exit_and_clean_up("metadata") /\ UNCHANGED written
       ELSE /\ Goto(StageAfter("metadata"))
            /\ UNCHANGED <<folder, hdf5, storeOpen, steps, written>>
    /\ UNCHANGED <<args, cags, sheet, idx, destHdf5, destLog>>
    /\ UNCHANGED rvars

\* lines 144-161: the taxonomic classification
IngestTaxonomy ==
    /\ pc = "taxonomy"
    /\ IF args.taxonomy
       THEN \E doc \in TaxonomyDocs, ioOk \in BOOLEAN :
              LET r == add_taxonomy_to_store(doc, hdf5.data, ioOk)
              IN  /\ steps' = Append(steps, Entry("taxonomy", <<>>, 0, TableDocTag(doc),
                                                  doc.rows, ioOk, r.ok))
                  /\ IF r.ok
                     THEN Stored(r) /\ Goto(StageAfter("taxonomy"))
                     ELSE exit_and_clean_up("taxonomy") /\ UNCHANGED written
       ELSE /\ Goto(StageAfter("taxonomy"))
            /\ UNCHANGED <<folder, hdf5, storeOpen, steps, written>>
    /\ UNCHANGED <<args, cags, sheet, idx, destHdf5, destLog>>
    /\ UNCHANGED rvars

\* lines 163-181: the eggNOG mapper results
IngestEggnog ==
    /\ pc = "eggnog"
    /\ IF args.eggnog
       THEN \E doc \in EggnogDocs, ioOk1 \in BOOLEAN, ioOk2 \in BOOLEAN :
              LET r == add_eggnog_to_store(doc, hdf5.data, ioOk1, ioOk2)
              IN  /\ steps' = Append(steps, Entry("eggnog", <<>>, 0, TableDocTag(doc),
                                                  doc.rows, ioOk1 /\ ioOk2, r.ok))
                  /\ IF r.ok
                     THEN Stored(r) /\ Goto(StageAfter("eggnog"))
                     ELSE exit_and_clean_up("eggnog") /\ UNCHANGED written
       ELSE /\ Goto(StageAfter("eggnog"))
            /\ UNCHANGED <<folder, hdf5, storeOpen, steps, written>>
    /\ UNCHANGED <<args, cags, sheet, idx, destHdf5, destLog>>
    /\ UNCHANGED rvars

\* line 184: store.close(), outside any try
CloseStore ==
    /\ pc = "close"
    /\ \E closeOk \in BOOLEAN :
         IF closeOk
         THEN /\ storeOpen' = FALSE
              /\ Goto("repack")
              /\ UNCHANGED <<folder, hdf5>>
         ELSE Uncaught("close")
    /\ UNCHANGED <<args, cags, sheet, idx, destHdf5, destLog, steps, written>>
    /\ UNCHANGED rvars

\* repack_hdf5 (helpers.py 18-57): the h5repack process is started, its exit
\* code asserted to be 0, and the repacked file copied over the working copy
RepackOutcomes == {"ok", "no_h5repack", "exit_nonzero", "copy_failed"}

\* repack_hdf5 without the check of the exit code
repack_unchecked(file, outcome) ==
    [ok |-> outcome \in {"ok", "exit_nonzero"},
     file |-> IF outcome = "ok" THEN [file EXCEPT !.packed = TRUE] ELSE file]

repack_hdf5(file, outcome) ==
    [ok |-> outcome = "ok",
     file |-> IF outcome = "ok" THEN [file EXCEPT !.packed = TRUE] ELSE file]

\* lines 187-190
Repack ==
    /\ pc = "repack"
    /\ \E outcome \in RepackOutcomes :
         LET r == repack_hdf5(hdf5, outcome)
         IN  /\ steps' = Append(steps, Entry("repack", <<>>, 0, "good", <<>>,
                                             outcome = "ok", r.ok))
             /\ IF r.ok
                THEN /\ hdf5' = r.file
                     /\ Goto("publish_hdf5")
                     /\ UNCHANGED <<folder, storeOpen>>
                ELSE exit_and_clean_up("repack")
    /\ UNCHANGED <<args, cags, sheet, idx, destHdf5, destLog, written>>
    /\ UNCHANGED rvars

\* s3.upload_file(...) on the object boto3.resource('s3') returns (line 67):
\* a service resource has no upload_file, so the attribute lookup raises.
S3ResourceUploadOk == FALSE

\* lines 193-201, first turn: the container is copied to output_hdf5
PublishHdf5 ==
    /\ pc = "publish_hdf5"
    /\ \E copyOk \in BOOLEAN :
         IF (IF args.out_hdf5 = "s3" THEN S3ResourceUploadOk ELSE copyOk)
         THEN /\ destHdf5' = hdf5
              /\ Goto("publish_log")
              /\ UNCHANGED <<folder, hdf5, storeOpen>>
         ELSE Uncaught("publish_hdf5") /\ UNCHANGED destHdf5
    /\ UNCHANGED <<args, cags, sheet, idx, destLog, steps, written>>
    /\ UNCHANGED rvars

\* lines 193-201, second turn: the log is copied to output_logs
PublishLog ==
    /\ pc = "publish_log"
    /\ \E copyOk \in BOOLEAN :
         IF (IF args.out_logs = "s3" THEN S3ResourceUploadOk ELSE copyOk)
         THEN /\ destLog' = TRUE
              /\ Goto("rmtree")
              /\ UNCHANGED <<folder, hdf5, storeOpen>>
         ELSE Uncaught("publish_log") /\ UNCHANGED destLog
    /\ UNCHANGED <<args, cags, sheet, idx, destHdf5, steps, written>>
    /\ UNCHANGED rvars

\* lines 203-204, then the process ends with status 0
RemoveTemp ==
    /\ pc = "rmtree"
    /\ folder' = FALSE
    /\ hdf5' = NoFile
    /\ pc' = "done"
    /\ exit' = "zero"
    /\ UNCHANGED <<args, storeOpen, cags, sheet, idx, destHdf5, destLog, steps,
                   written, failed>>
    /\ UNCHANGED rvars

vars == <<bvars, rvars>>

-----------------------------------------------------------------------------
(* lib/experiment_collection.py: ExperimentCollection *)

Readers == {"r1", "r2"}

MaxCalls == 2       \* accessor calls in one behaviour

SampleCacheSize == 512

\* The name made of a letter and the three decimal digits of i
NumName(letter, i) ==
    LET digit(d) == <<"0", "1", "2", "3", "4", "5", "6", "7", "8", "9">>[d + 1]
    IN  <<letter, digit((i \div 100) % 10), digit((i \div 10) % 10), digit(i % 10)>>

\* The order in which an HDFStore lists its per-sample nodes (by name)
SampleOrder == [i \in 1..(SampleCacheSize + 1) |-> NumName("n", i)] \o <<S1, S2, SX>>
\* The order of a sorted index of feature identifiers
FeatureOrder == <<"c1", "c2", "g1", "g2", "g3">>

Range(q) == {q[i] : i \in 1..Len(q)}

NoneArg == [given |-> FALSE, v |-> <<>>]
Given(v) == [given |-> TRUE, v |-> v]

\* The first occurrences of q, in order: the keys of a dict filled in q's order
RECURSIVE Distinct(_)
Distinct(q) ==
    IF Len(q) = 0 THEN <<>>
    ELSE LET front == Distinct(SubSeq(q, 1, Len(q) - 1))
         IN  IF q[Len(q)] \in Range(front) THEN front ELSE Append(front, q[Len(q)])

\* __init__ (lines 25-31): the names of the /abundance/<name> nodes
all_samples(file) ==
    SelectSeq(SampleOrder, LAMBDA n : HasKey(file.data, SampleKey("abundance", n)))

\* sample_gene_abundance / sample_cag_abundance (lines 73-119) past the
\* cache: the dataset is read, the id and metric columns asserted, and the
\* metric returned indexed by the id column
SampleSeries(file, table, idcol, sample_id, metric) ==
    LET k == SampleKey(table, sample_id)
    IN  IF ~HasKey(file.data, k)
        THEN [ok |-> FALSE, index |-> <<>>, vals |-> <<>>]
        ELSE LET ds == Get(file.data, k)
             IN  IF idcol \in Range(ds.cols) /\ metric \in Range(ds.cols)
                 THEN [ok |-> TRUE,
                       index |-> [i \in 1..Len(ds.rows) |-> ds.rows[i][idcol]],
                       vals  |-> [i \in 1..Len(ds.rows) |-> <<ds.rows[i][metric]>>]]
                 ELSE [ok |-> FALSE, index |-> <<>>, vals |-> <<>>]

\* Series.reindex(features): refused on an index holding a label twice;
\* a feature the index lacks gets a missing value (the empty cell <<>>)
Reindex(series, features) ==
    LET unique == \A i, j \in 1..Len(series.index) :
                     series.index[i] = series.index[j] => i = j
        at(f) == CHOOSE i \in 1..Len(series.index) : series.index[i] = f
    IN  [ok |-> series.ok /\ unique,
         index |-> features,
         vals |-> [j \in 1..Len(features) |->
                     IF features[j] \in Range(series.index)
                     THEN series.vals[at(features[j])] ELSE <<>>]]

\* The wrapper without the eviction at maxsize
LruTouchUnbounded(cache, key, maxsize) ==
    IF key \in Range(cache)
    THEN Append(SelectSeq(cache, LAMBDA k : k # key), key)
    ELSE Append(cache, key)

\* The lru_cache wrapper: a hit moves the key to the most recent end, a miss
\* adds it and, at maxsize, drops the least recent key
LruTouch(cache, key, maxsize) ==
    IF key \in Range(cache)
    THEN Append(SelectSeq(cache, LAMBDA k : k # key), key)
    ELSE IF Len(cache) >= maxsize THEN Append(Tail(cache), key)
    ELSE Append(cache, key)

\* The loop of gene_abundance / cag_abundance (lines 59-68, 175-180) over
\* `samples`: [ok, cols, cache]; cols holds <<sample, series>> per turn. The
\* loop ends at the first call that raises; a call that raised is not cached.
RECURSIVE Collect(_, _, _, _, _, _, _, _)
Collect(file, table, idcol, self, samples, metric, features, cache) ==
    IF Len(samples) = 0 THEN [ok |-> TRUE, cols |-> <<>>, cache |-> cache]
    ELSE LET raw == SampleSeries(file, table, idcol, samples[1], metric)
             key == [self |-> self, sample_id |-> samples[1], metric |-> metric]
             cache1 == IF raw.ok THEN LruTouch(cache, key, SampleCacheSize) ELSE cache
             ser == IF features.given THEN Reindex(raw, features.v) ELSE raw
             rest == Collect(file, table, idcol, self, Tail(samples), metric,
                             features, cache1)
         IN  IF ~ser.ok THEN [ok |-> FALSE, cols |-> <<>>, cache |-> cache1]
             ELSE [ok |-> rest.ok,
                   cols |-> IF rest.ok THEN <<<<samples[1], ser>>>> \o rest.cols ELSE <<>>,
                   cache |-> rest.cache]

\* pd.DataFrame(df) of the dict sample -> Series: one column per key; the
\* index is the Series' common index, or the sorted union of their indexes
DataFrame(cols) ==
    LET names == Distinct([i \in 1..Len(cols) |-> cols[i][1]])
        serOf(n) == cols[CHOOSE i \in 1..Len(cols) :
                           cols[i][1] = n /\ \A j \in 1..Len(cols) : cols[j][1] = n => j <= i][2]
        same == \A i \in 1..Len(cols) : cols[i][2].index = cols[1][2].index
        all == UNION {Range(cols[i][2].index) : i \in 1..Len(cols)}
        index == IF Len(cols) = 0 THEN <<>>
                 ELSE IF same THEN cols[1][2].index
                 ELSE SelectSeq(FeatureOrder, LAMBDA f : f \in all)
        cell(n, f) == LET sr == serOf(n)
                      IN  IF f \in Range(sr.index)
                          THEN sr.vals[CHOOSE i \in 1..Len(sr.index) : sr.index[i] = f]
                          ELSE <<>>
    IN  [index |-> index, columns |-> names,
         cells |-> [c \in 1..Len(names) |->
                      [i \in 1..Len(index) |->
                         IF same THEN serOf(names[c]).vals[i]
                         ELSE cell(names[c], index[i])]]]

EmptyFrame == [index |-> <<>>, columns |-> <<>>, cells |-> <<>>]

Call(op, self, features, samples, metric, ok, frame) ==
    [op |-> op, self |-> self, features |-> features, samples |-> samples,
     metric |-> metric, ok |-> ok, frame |-> IF ok THEN frame ELSE EmptyFrame]

NoCall == Call("none", "r1", NoneArg, NoneArg, "None", FALSE, EmptyFrame)

\* The default of `metric` (lines 52-53, 168-169): abund_id_key
MetricOrDefault(metric) == IF metric = "None" THEN "depth" ELSE metric

ContigCacheSize == 128

Digits == <<"0", "1", "2", "3", "4", "5", "6", "7", "8", "9">>

IsDigits(chars) == Len(chars) > 0 /\ \A i \in 1..Len(chars) : chars[i] \in Range(Digits)

DigitValue(c) == (CHOOSE d \in 1..10 : Digits[d] = c) - 1

\* int() of a text of decimal digits
RECURSIVE ParseInt(_)
ParseInt(chars) ==
    IF Len(chars) = 0 THEN 0
    ELSE 10 * ParseInt(SubSeq(chars, 1, Len(chars) - 1)) + DigitValue(chars[Len(chars)])

\* Series.apply(int) on one cell: an integer stays, a text of digits is
\* parsed, anything else raises
CanInt(cell) == cell.t = "int" \/ (cell.t = "str" /\ IsDigits(cell.s))
ToInt(cell) == IF cell.t = "int" THEN cell ELSE Num(ParseInt(cell.s))

EmptySeries == [index |-> <<>>, vals |-> <<>>]
EmptyTable == [cols |-> <<>>, index |-> <<>>, rows |-> <<>>]

\* What a single-item accessor call was given and returned; `read` tells
\* whether the call went to the container
Single(op, self, arg, metric, ok, read, series, frame, list) ==
    [op |-> op, self |-> self, arg |-> arg, metric |-> metric, ok |-> ok,
     read |-> read,
     series |-> IF ok THEN series ELSE EmptySeries,
     frame |-> IF ok THEN frame ELSE EmptyTable,
     list |-> IF ok THEN list ELSE <<>>]

NoSingle == Single("none", "r1", <<>>, "None", FALSE, FALSE, EmptySeries, EmptyTable, <<>>)

\* pd.read_hdf(fp, "gene_positions", where=...): the rows the condition
\* selects, under the row labels they have in the table
PositionsWhere(file, col, value) ==
    IF ~HasKey(file.data, Key("gene_positions"))
    THEN [ok |-> FALSE, frame |-> EmptyTable]
    ELSE LET ds == Get(file.data, Key("gene_positions"))
             at == SelectSeq([i \in 1..Len(ds.rows) |-> i],
                             LAMBDA i : ds.rows[i][col] = value)
         IN  [ok |-> TRUE,
              frame |-> [cols |-> ds.cols,
                         index |-> [j \in 1..Len(at) |-> at[j] - 1],
                         rows |-> [j \in 1..Len(at) |-> ds.rows[at[j]]]]]

\* The lru_cache wrapper of an accessor whose cached object is kept: the
\* entries are [key, val]
LruHit(cache, key) == \E i \in 1..Len(cache) : cache[i].key = key

LruValue(cache, key) == cache[CHOOSE i \in 1..Len(cache) : cache[i].key = key].val

LruUse(cache, key, val, maxsize) ==
    IF LruHit(cache, key)
    THEN Append(SelectSeq(cache, LAMBDA e : e.key # key),
                [key |-> key, val |-> LruValue(cache, key)])
    ELSE IF Len(cache) >= maxsize
         THEN Append(Tail(cache), [key |-> key, val |-> val])
    ELSE Append(cache, [key |-> key, val |-> val])

\* The key lru_cache makes of a method call: the instance and the arguments
ContigKey(self, arg) == [self |-> self, arg |-> arg]

ReaderInit ==
    /\ readers = [r \in Readers |-> [open |-> FALSE, all_samples |-> <<>>]]
    /\ sgaCache = <<>>
    /\ scaCache = <<>>
    /\ last = NoCall
    /\ calls = 0
    /\ cwgCache = <<>>
    /\ cdCache = <<>>
    /\ lastSingle = NoSingle

\* ExperimentCollection(exp_col_fp) on the published container
Open(self) ==
    /\ exit # "running"
    /\ destHdf5.exists
    /\ ~readers[self].open
    /\ readers' = [readers EXCEPT ![self] =
                     [open |-> TRUE, all_samples |-> all_samples(destHdf5)]]
    /\ UNCHANGED <<sgaCache, scaCache, last, calls, cwgCache, cdCache, lastSingle>>
    /\ UNCHANGED bvars

\* gene_abundance (lines 33-71)
gene_abundance(self, genes, samples, metric) ==
    /\ readers[self].open
    /\ calls < MaxCalls
    /\ LET known == Range(readers[self].all_samples)
           valid == samples.given => \A i \in 1..Len(samples.v) : samples.v[i] \in known
           list == IF samples.given THEN samples.v ELSE readers[self].all_samples
           got == Collect(destHdf5, "abundance", "id", self, list,
                          MetricOrDefault(metric), genes, sgaCache)
       IN  /\ sgaCache' = IF valid THEN got.cache ELSE sgaCache
           /\ last' = Call("gene_abundance", self, genes, samples, metric,
                           valid /\ got.ok, DataFrame(got.cols))
    /\ calls' = calls + 1
    /\ UNCHANGED <<readers, scaCache, cwgCache, cdCache, lastSingle>>
    /\ UNCHANGED bvars

\* cag_abundance (lines 154-183)
cag_abundance(self, cagList, samples, metric) ==
    /\ readers[self].open
    /\ calls < MaxCalls
    /\ LET list == IF samples.given THEN samples.v ELSE readers[self].all_samples
           got == Collect(destHdf5, "cag_abundance", "cag_id", self, list,
                          MetricOrDefault(metric), cagList, scaCache)
       IN  /\ scaCache' = got.cache
           /\ last' = Call("cag_abundance", self, cagList, samples, metric,
                           got.ok, DataFrame(got.cols))
    /\ calls' = calls + 1
    /\ UNCHANGED <<readers, sgaCache, cwgCache, cdCache, lastSingle>>
    /\ UNCHANGED bvars

\* A direct call of sample_gene_abundance / sample_cag_abundance through its
\* lru_cache wrapper; the key holds `metric` as the caller passed it
SampleAccessor(op, table, idcol, cache, self, sample_id, metric) ==
    LET key == [self |-> self, sample_id |-> sample_id, metric |-> metric]
        hit == key \in Range(cache)
        raw == SampleSeries(destHdf5, table, idcol, sample_id, MetricOrDefault(metric))
        ok  == hit \/ raw.ok
    IN  [cache |-> IF ok THEN LruTouch(cache, key, SampleCacheSize) ELSE cache,
         call |-> Single(op, self, sample_id, metric, ok, ~hit,
                         [index |-> raw.index, vals |-> raw.vals], EmptyTable, <<>>)]

\* sample_gene_abundance (lines 73-95)
sample_gene_abundance(self, sample_id, metric) ==
    /\ readers[self].open
    /\ calls < MaxCalls
    /\ LET got == SampleAccessor("sample_gene_abundance", "abundance", "id",
                                 sgaCache, self, sample_id, metric)
       IN  sgaCache' = got.cache /\ lastSingle' = got.call
    /\ calls' = calls + 1
    /\ UNCHANGED <<readers, scaCache, cwgCache, cdCache, last>>
    /\ UNCHANGED bvars

\* sample_cag_abundance (lines 97-119)
sample_cag_abundance(self, sample_id, metric) ==
    /\ readers[self].open
    /\ calls < MaxCalls
    /\ LET got == SampleAccessor("sample_cag_abundance", "cag_abundance", "cag_id",
                                 scaCache, self, sample_id, metric)
       IN  scaCache' = got.cache /\ lastSingle' = got.call
    /\ calls' = calls + 1
    /\ UNCHANGED <<readers, sgaCache, cwgCache, cdCache, last>>
    /\ UNCHANGED bvars

\* contigs_with_gene (lines 195-202): the seqname column of the rows of the
\* gene cluster, as a list
contigs_with_gene(self, gene_id) ==
    /\ readers[self].open
    /\ calls < MaxCalls
    /\ LET key == ContigKey(self, gene_id)
           hit == LruHit(cwgCache, key)
           rd  == PositionsWhere(destHdf5, "cluster", gene_id)
           ok  == hit \/ rd.ok
           fresh == [j \in 1..Len(rd.frame.rows) |-> rd.frame.rows[j].seqname]
           cache1 == IF ok THEN LruUse(cwgCache, key, fresh, ContigCacheSize)
                     ELSE cwgCache
       IN  /\ cwgCache' = cache1
           /\ lastSingle' = Single("contigs_with_gene", self, gene_id, "None", ok, ~hit,
                                   EmptySeries, EmptyTable,
                                   IF ok THEN LruValue(cache1, key) ELSE <<>>)
    /\ calls' = calls + 1
    /\ UNCHANGED <<readers, sgaCache, scaCache, cdCache, last>>
    /\ UNCHANGED bvars

\* contig_df (lines 204-211): the rows of the contig as a DataFrame; the
\* caller gets the cached object itself
contig_df(self, contig_id) ==
    /\ readers[self].open
    /\ calls < MaxCalls
    /\ LET key == ContigKey(self, contig_id)
           hit == LruHit(cdCache, key)
           rd  == PositionsWhere(destHdf5, "seqname", contig_id)
           ok  == hit \/ rd.ok
           cache1 == IF ok THEN LruUse(cdCache, key, rd.frame, ContigCacheSize)
                     ELSE cdCache
       IN  /\ cdCache' = cache1
           /\ lastSingle' = Single("contig_df", self, contig_id, "None", ok, ~hit,
                                   EmptySeries,
                                   IF ok THEN LruValue(cache1, key) ELSE EmptyTable,
                                   <<>>)
    /\ calls' = calls + 1
    /\ UNCHANGED <<readers, sgaCache, scaCache, cwgCache, last>>
    /\ UNCHANGED bvars

\* DataFrame.sort_values(by="start"): rows in increasing start, rows of
\* equal start in their earlier order
RECURSIVE SortByStart(_)
SortByStart(rows) ==
    IF Len(rows) = 0 THEN <<>>
    ELSE LET front == SortByStart(SubSeq(rows, 1, Len(rows) - 1))
             r == rows[Len(rows)]
             before == SelectSeq(front, LAMBDA x : x.start.n <= r.start.n)
             after == SelectSeq(front, LAMBDA x : x.start.n > r.start.n)
         IN  before \o <<r>> \o after

\* plotting_helpers.plot_single_contig, lines 16-28, on the DataFrame `f` that
\* contig_df returned: [ok, frame] with the frame as the statements left it.
\* Line 17 or 18 raises on a coordinate that int() refuses.
MakeNumericAndSort(f) ==
    LET canStart == \A i \in 1..Len(f.rows) : CanInt(f.rows[i].start)
        f17 == [f EXCEPT !.rows = [i \in 1..Len(f.rows) |->
                                     [f.rows[i] EXCEPT !.start = ToInt(@)]]]
        canEnd == \A i \in 1..Len(f.rows) : CanInt(f.rows[i].end)
        f18 == [f17 EXCEPT !.rows = [i \in 1..Len(f.rows) |->
                                       [f17.rows[i] EXCEPT !.end = ToInt(@)]]]
        withMiddle == [i \in 1..Len(f.rows) |->
                         ("middle" :> Frac(f18.rows[i].start.n + f18.rows[i].end.n, 2))
                            @@ f18.rows[i]]
        f24 == [cols |-> IF "middle" \in Range(f.cols) THEN f.cols
                         ELSE Append(f.cols, "middle"),
                index |-> [i \in 1..Len(f.rows) |-> i - 1],
                rows |-> SortByStart(withMiddle)]
    IN  IF ~canStart THEN [ok |-> FALSE, frame |-> f]
        ELSE IF ~canEnd THEN [ok |-> FALSE, frame |-> f17]
        ELSE [ok |-> TRUE, frame |-> f24]

\* The cache with the object cached under `key` in the state `val`
Mutated(cache, key, val) ==
    [i \in 1..Len(cache) |->
        IF cache[i].key = key THEN [key |-> key, val |-> val] ELSE cache[i]]

\* plotting_helpers.plot_single_contig (lines 11-85): the contig's DataFrame
\* is taken from contig_df and changed in place; the drawing that follows
\* (lines 30-85) changes nothing the reader holds. `ok` tells whether lines
\* 14-28 completed.
plot_single_contig(self, contig_name) ==
    /\ readers[self].open
    /\ calls < MaxCalls
    /\ LET key == ContigKey(self, contig_name)
           hit == LruHit(cdCache, key)
           rd  == PositionsWhere(destHdf5, "seqname", contig_name)
           got == hit \/ rd.ok
           cache1 == IF got THEN LruUse(cdCache, key, rd.frame, ContigCacheSize)
                     ELSE cdCache
           done == MakeNumericAndSort(LruValue(cache1, key))
       IN  /\ cdCache' = IF got THEN Mutated(cache1, key, done.frame) ELSE cdCache
           /\ lastSingle' = Single("plot_single_contig", self, contig_name, "None",
                                   got /\ done.ok, ~hit, EmptySeries, EmptyTable, <<>>)
    /\ calls' = calls + 1
    /\ UNCHANGED <<readers, sgaCache, scaCache, cwgCache, last>>
    /\ UNCHANGED bvars

SampleArgs == {NoneArg, Given(<<>>), Given(<<S1>>), Given(<<S1, S2>>),
               Given(<<SX>>), Given(<<S1, S1>>)}
GeneArgs == {NoneArg, Given(<<"g1">>), Given(<<"g3", "g1">>)}
CagArgs == {NoneArg, Given(<<"c1">>), Given(<<"c2", "c1">>)}
MetricArgs == {"None", "clr", "tpm"}

OpenReader == \E self \in Readers : Open(self)

GeneAbundance ==
    \E self \in Readers, g \in GeneArgs, smp \in SampleArgs, m \in MetricArgs :
        gene_abundance(self, g, smp, m)

CagAbundance ==
    \E self \in Readers, c \in CagArgs, smp \in SampleArgs, m \in MetricArgs :
        cag_abundance(self, c, smp, m)

-----------------------------------------------------------------------------
(* Specifications *)

Init == BuildInit /\ ReaderInit

Next ==
    \/ Start
    \/ CopyPrior
    \/ OpenStore
    \/ IngestCags
    \/ ReadSheet
    \/ IngestSample
    \/ IngestMetadata
    \/ IngestTaxonomy
    \/ IngestEggnog
    \/ CloseStore
    \/ Repack
    \/ PublishHdf5
    \/ PublishLog
    \/ RemoveTemp
    \/ OpenReader

\* A build and the readers opened on what it published
Spec == Init /\ [][Next]_vars

\* The state a build that republished a container it was given ends in
ReadInit ==
    /\ args = [cags |-> FALSE, sheet |-> FALSE, metadata |-> FALSE,
               taxonomy |-> FALSE, eggnog |-> FALSE, prior |-> "local",
               out_hdf5 |-> "local", out_logs |-> "local", temp_exists |-> TRUE]
    /\ pc = "done"
    /\ folder = FALSE
    /\ hdf5 = NoFile
    /\ storeOpen = FALSE
    /\ cags = NoCags
    /\ sheet = <<>>
    /\ idx = 1
    /\ destHdf5 \in PriorFiles
    /\ destLog = TRUE
    /\ exit = "zero"
    /\ steps = <<Entry("repack", <<>>, 0, "good", <<>>, TRUE, TRUE)>>
    /\ written = {}
    /\ failed = "none"
    /\ ReaderInit

ReadNext ==
    \/ OpenReader
    \/ GeneAbundance
    \/ CagAbundance

\* Readers and their accessor calls on a published container
SpecRead == ReadInit /\ [][ReadNext]_vars

\* A large collection: more samples than the sample accessors cache and more
\* contigs and gene clusters than the contig accessors cache
ScanData ==
    {[key |-> SampleKey("abundance", NumName("n", i)), cols |-> AbundanceCols,
      rows |-> <<PriorRow("g1", i, <<>>, NumName("n", i))>>] :
        i \in 1..(SampleCacheSize + 1)}
    \cup
    {[key |-> SampleKey("cag_abundance", NumName("n", i)), cols |-> CagAbundanceCols,
      rows |-> <<PriorCagRow("c1", i, <<>>, NumName("n", i))>>] :
        i \in 1..(SampleCacheSize + 1)}
    \cup
    {[key |-> Key("gene_positions"), cols |-> PositionCols,
      rows |-> [i \in 1..(ContigCacheSize + 1) |->
                  PositionRow(NumName("k", i), NumName("g", i), <<"7">>, <<"9">>)]
               \o <<PositionRow(NumName("k", 1), NumName("g", 2), <<"1">>, <<"5">>)>>]}

\* How much of the collection a reader has already gone through
ScanLevels == {"cold", "full"}

Scanned(level, maxsize) ==
    CASE level = "cold" -> 0
      [] level = "full" -> maxsize

\* Reader r1 has opened the published large collection and called each
\* single-item accessor on its first samples, gene clusters and contigs, in
\* catalog order
CacheInit ==
    /\ args = [cags |-> FALSE, sheet |-> FALSE, metadata |-> FALSE,
               taxonomy |-> FALSE, eggnog |-> FALSE, prior |-> "local",
               out_hdf5 |-> "local", out_logs |-> "local", temp_exists |-> TRUE]
    /\ pc = "done"
    /\ folder = FALSE
    /\ hdf5 = NoFile
    /\ storeOpen = FALSE
    /\ cags = NoCags
    /\ sheet = <<>>
    /\ idx = 1
    /\ destHdf5 = File(ScanData, TRUE)
    /\ destLog = TRUE
    /\ exit = "zero"
    /\ steps = <<Entry("repack", <<>>, 0, "good", <<>>, TRUE, TRUE)>>
    /\ written = {}
    /\ failed = "none"
    /\ readers = [r \in Readers |->
                    IF r = "r1"
                    THEN [open |-> TRUE, all_samples |-> all_samples(File(ScanData, TRUE))]
                    ELSE [open |-> FALSE, all_samples |-> <<>>]]
    /\ \E level \in ScanLevels :
         /\ sgaCache = [i \in 1..Scanned(level, SampleCacheSize) |->
                          [self |-> "r1", sample_id |-> NumName("n", i), metric |-> "None"]]
         /\ scaCache = [i \in 1..Scanned(level, SampleCacheSize) |->
                          [self |-> "r1", sample_id |-> NumName("n", i), metric |-> "None"]]
         /\ cwgCache = [i \in 1..Scanned(level, ContigCacheSize) |->
                          [key |-> ContigKey("r1", NumName("g", i)),
                           val |-> LET rows == PositionsWhere(File(ScanData, TRUE), "cluster",
                                                              NumName("g", i)).frame.rows
                                   IN  [j \in 1..Len(rows) |-> rows[j].seqname]]]
         /\ cdCache = [i \in 1..Scanned(level, ContigCacheSize) |->
                         [key |-> ContigKey("r1", NumName("k", i)),
                          val |-> PositionsWhere(File(ScanData, TRUE), "seqname",
                                                 NumName("k", i)).frame]]
    /\ last = NoCall
    /\ calls = 0
    /\ lastSingle = NoSingle

\* The arguments of the calls: an item r1 went through first, an item beyond
\* what any cache holds, and a name the collection does not have
FirstSample == NumName("n", 1)
BeyondSample == NumName("n", SampleCacheSize + 1)
FirstGene == NumName("g", 1)
BeyondGene == NumName("g", ContigCacheSize + 1)
FirstContig == NumName("k", 1)
BeyondContig == NumName("k", ContigCacheSize + 1)

SampleGeneAbundance ==
    \E self \in Readers, smp \in {FirstSample, BeyondSample, SX} :
        sample_gene_abundance(self, smp, "None")

SampleCagAbundance ==
    \E self \in Readers, smp \in {FirstSample, BeyondSample} :
        sample_cag_abundance(self, smp, "None")

ContigsWithGene ==
    \E self \in Readers, g \in {FirstGene, BeyondGene} : contigs_with_gene(self, g)

ContigDf ==
    \E self \in Readers, k \in {FirstContig, BeyondContig} : contig_df(self, k)

PlotSingleContig ==
    \E self \in Readers : plot_single_contig(self, FirstContig)

CacheNext ==
    \/ OpenReader
    \/ SampleGeneAbundance
    \/ SampleCagAbundance
    \/ ContigsWithGene
    \/ ContigDf
    \/ PlotSingleContig

\* Readers and their single-item accessor calls on a large published collection
SpecCache == CacheInit /\ [][CacheNext]_vars

-----------------------------------------------------------------------------
(* Properties *)

IngestionStages == {"cags", "sheet", "samples", "metadata", "taxonomy", "eggnog"}

Rank(step) ==
    CASE step = "cags"     -> 1
      [] step = "sample"   -> 2
      [] step = "metadata" -> 3
      [] step = "taxonomy" -> 4
      [] step = "eggnog"   -> 5
      [] step = "repack"   -> 6

Requested(step) ==
    CASE step = "cags"     -> args.cags
      [] step = "sample"   -> args.sheet
      [] step = "metadata" -> args.metadata
      [] step = "taxonomy" -> args.taxonomy
      [] step = "eggnog"   -> args.eggnog
      [] step = "repack"   -> TRUE

\* The entries of `steps` before position j that completed step `step`
Completed(step, j) == {i \in 1..(j - 1) : steps[i].step = step /\ steps[i].ok}

AllRequestedCompleted(step, j) ==
    IF step = "sample"
    THEN \A p \in 1..Len(sheet) : \E i \in Completed("sample", j) : steps[i].pos = p
    ELSE Completed(step, j) # {}

\* C1: a failure at any stage of a build ends with the working folder
\* (working copy and log) deleted and the process exiting non-zero.
C1_EveryFailureCleansUp ==
    failed # "none" => ~folder /\ ~hdf5.exists /\ exit = "nonzero"

\* C2: the container is at its destination only if every requested
\* ingestion step and the repack completed successfully beforehand (the
\* compaction command having exited with 0); after a failed ingestion step
\* or repack nothing is at the destination.
C2_PublishedOnlyAfterSuccess ==
    /\ destHdf5.exists =>
         /\ \A i \in 1..Len(steps) : steps[i].ok
         /\ \E i \in 1..Len(steps) : steps[i].step = "repack" /\ steps[i].io
         /\ \A st \in {"cags", "sample", "metadata", "taxonomy", "eggnog"} :
              Requested(st) => AllRequestedCompleted(st, Len(steps) + 1)
    /\ failed \in IngestionStages \cup {"repack"} => ~destHdf5.exists

C2_Witness ==
    /\ pc = "done" /\ destHdf5.exists
    /\ args.cags /\ args.sheet /\ args.metadata /\ args.taxonomy /\ args.eggnog

\* C3: the ingestion steps run in the order CAG membership, the samples in
\* the order of the sample sheet, metadata, taxonomy, functional annotation;
\* a step starts only after every earlier requested step has completed, and
\* a requested CAG membership is loaded when a sample is ingested.
C3_FixedOrder ==
    \A j \in 1..Len(steps) :
        /\ \A i \in 1..(j - 1) :
             /\ steps[i].ok
             /\ Rank(steps[i].step) <= Rank(steps[j].step)
             /\ Rank(steps[i].step) = Rank(steps[j].step) =>
                  steps[i].step = "sample" /\ steps[i].pos < steps[j].pos
        /\ \A st \in {"cags", "sample", "metadata", "taxonomy", "eggnog"} :
             Rank(st) < Rank(steps[j].step) /\ Requested(st) =>
                 AllRequestedCompleted(st, j)
        /\ steps[j].step = "sample" =>
             /\ steps[j].pos = Cardinality(Completed("sample", j)) + 1
             /\ steps[j].cagsLoaded = args.cags
        /\ Requested(steps[j].step)

C3_Witness ==
    /\ Len(steps) = 2
    /\ steps[1].step = "cags" /\ steps[1].ok
    /\ steps[2].step = "sample" /\ steps[2].cagsLoaded

\* C5: a CAG-membership input that is a list, or a mapping with a non-list
\* value, aborts the build before the build has written any table, and the
\* working copy does not exist afterward.
C5_MisshapenCagsAbort ==
    \A i \in 1..Len(steps) :
        steps[i].step = "cags" /\ steps[i].input \in {"list", "nonlist"} =>
            /\ ~steps[i].ok
            /\ pc = "aborted" /\ exit = "nonzero"
            /\ written = {}
            /\ ~folder /\ ~hdf5.exists /\ ~destHdf5.exists

C5_Witness ==
    /\ Len(steps) = 1 /\ steps[1].step = "cags" /\ steps[1].input = "list"
    /\ args.prior # "none"
    /\ pc = "aborted"

\* The sample steps that were given a well-formed document with at least
\* one record, and whose writes the environment let succeed
GoodSampleSteps ==
    {i \in 1..Len(steps) : /\ steps[i].step = "sample"
                           /\ steps[i].input = "good"
                           /\ steps[i].io
                           /\ Len(steps[i].recs) > 0}

\* TRUE in the states right after step i returned
JustAfter(i) == i = Len(steps) /\ pc \in {"samples", "metadata"}

RowsOf(data, k) == IF HasKey(data, k) THEN Get(data, k).rows ELSE <<>>
ColsOf(data, k) == IF HasKey(data, k) THEN Range(Get(data, k).cols) ELSE {}

\* C4: every sample the builder is given is ingested under its canonical
\* name s, a reader opened on the published container lists s, and the
\* abundance it reads for s is exactly the gene -> abundance values ingested.
C4_RoundTrip ==
    \A i \in GoodSampleSteps :
        /\ steps[i].ok
        /\ \A r \in Readers :
             readers[r].open =>
               /\ steps[i].sample \in Range(readers[r].all_samples)
               /\ LET got == SampleSeries(destHdf5, "abundance", "id",
                                          steps[i].sample, "depth")
                      recs == steps[i].recs
                  IN  /\ got.ok
                      /\ got.index = [k \in 1..Len(recs) |-> recs[k].id]
                      /\ got.vals = [k \in 1..Len(recs) |-> <<Whole(recs[k].depth)>>]

\* C6: a sample with an abundance <= 0 does not fail the build: its rows are
\* appended without a clr column and the build proceeds; with all values > 0
\* the clr column is emitted.
C6_ClrSkippedNotFatal ==
    \A i \in GoodSampleSteps :
        /\ steps[i].ok
        /\ JustAfter(i) =>
             LET recs == steps[i].recs
                 allPositive == \A k \in 1..Len(recs) : recs[k].depth > 0
             IN  /\ \E k \in 1..Len(RowsOf(hdf5.data, Key("abundance"))) :
                       RowsOf(hdf5.data, Key("abundance"))[k].sample = steps[i].sample
                 /\ "clr" \in ColsOf(hdf5.data, Key("abundance")) <=> allPositive

\* C7: for every ingested sample and every CAG of the loaded membership the
\* CAG abundance is the mean over all member genes of the gene's abundance,
\* absent genes counting 0; a CAG is omitted exactly when that mean is 0.
C7_CagMean ==
    \A i \in GoodSampleSteps :
        steps[i].cagsLoaded =>
            /\ steps[i].ok
            /\ JustAfter(i) =>
                 LET rows == RowsOf(hdf5.data, Key("cag_abundance"))
                     mine == {k \in 1..Len(rows) : rows[k].sample = steps[i].sample}
                 IN  \A c \in 1..Len(cags.items) :
                        LET mean == CagMean(steps[i].recs, cags.items[c].genes)
                            at == {k \in mine : rows[k].cag_id = cags.items[c].cag}
                        IN  /\ at = {} <=> mean.n = 0
                            /\ \A k \in at : rows[k].depth = mean

\* C8: every sample name of the sample sheet is stored with "." and "-"
\* replaced by "_", and a reader lists the sample under that name.
C8_CanonicalNames ==
    \A i \in GoodSampleSteps :
        /\ "." \notin Range(steps[i].sample) /\ "-" \notin Range(steps[i].sample)
        /\ Len(steps[i].sample) = Len(sheet[steps[i].pos])
        /\ steps[i].ok
        /\ \A r \in Readers :
             readers[r].open => steps[i].sample \in Range(readers[r].all_samples)

TableOf(op) == IF op = "gene_abundance" THEN "abundance" ELSE "cag_abundance"
IdColOf(op) == IF op = "gene_abundance" THEN "id" ELSE "cag_id"

\* The columns some per-sample dataset of the table holds
StoredColumns(table) ==
    UNION {Range(ds.cols) : ds \in {d \in destHdf5.data : d.key.table = table
                                                          /\ d.key.sample # <<>>}}

Catalog(self) == Range(readers[self].all_samples)

\* The samples a call reads: the supplied list, else the catalog
SamplesRead(call) ==
    IF call.samples.given THEN call.samples.v ELSE readers[call.self].all_samples

\* C9: gene_abundance and cag_abundance fail whenever the supplied sample
\* list holds an identifier that is not in the catalog or the supplied
\* metric is not a stored column; a supplied sample list is what the matrix
\* is built from. Stated for the calls that have a sample to read.
C9_UnknownIsFatal ==
    last.op # "none" /\ Len(SamplesRead(last)) > 0 =>
        /\ (\/ /\ last.samples.given
               /\ \E smp \in Range(last.samples.v) : smp \notin Catalog(last.self)
            \/ /\ last.metric # "None"
               /\ last.metric \notin StoredColumns(TableOf(last.op)))
           => ~last.ok
        /\ last.ok /\ last.samples.given =>
               last.frame.columns = Distinct(last.samples.v)

\* The value stored for feature f in the sample's dataset: <<v>>, or <<>>
StoredCell(op, smp, f, metric) ==
    LET rows == RowsOf(destHdf5.data, SampleKey(TableOf(op), smp))
        at == {k \in 1..Len(rows) : rows[k][IdColOf(op)] = f}
    IN  IF at = {} THEN <<>> ELSE <<rows[CHOOSE k \in at : TRUE][metric]>>

\* C10: for any requested feature list and any list of catalog samples,
\* gene_abundance and cag_abundance succeed with one row per requested
\* feature and one column per requested sample, each cell holding the stored
\* value or a missing value. Stated for the non-empty sample lists.
C10_ReindexNeverFails ==
    ( /\ last.op # "none"
      /\ last.features.given
      /\ last.samples.given
      /\ Len(last.samples.v) > 0
      /\ Range(last.samples.v) \subseteq Catalog(last.self)
      /\ last.metric = "None" )
    => /\ last.ok
       /\ last.frame.index = last.features.v
       /\ last.frame.columns = Distinct(last.samples.v)
       /\ \A c \in 1..Len(last.frame.columns), i \in 1..Len(last.frame.index) :
            last.frame.cells[c][i] =
                StoredCell(last.op, last.frame.columns[c], last.frame.index[i], "depth")

\* What a single-item accessor returns when it reads the container
FreshSingle(op, arg, metric) ==
    CASE op = "sample_gene_abundance" ->
           LET raw == SampleSeries(destHdf5, "abundance", "id", arg, MetricOrDefault(metric))
           IN  [series |-> [index |-> raw.index, vals |-> raw.vals],
                frame |-> EmptyTable, list |-> <<>>]
      [] op = "sample_cag_abundance" ->
           LET raw == SampleSeries(destHdf5, "cag_abundance", "cag_id", arg,
                                   MetricOrDefault(metric))
           IN  [series |-> [index |-> raw.index, vals |-> raw.vals],
                frame |-> EmptyTable, list |-> <<>>]
      [] op = "contigs_with_gene" ->
           LET rows == PositionsWhere(destHdf5, "cluster", arg).frame.rows
           IN  [series |-> EmptySeries, frame |-> EmptyTable,
                list |-> [j \in 1..Len(rows) |-> rows[j].seqname]]
      [] op = "contig_df" ->
           [series |-> EmptySeries,
            frame |-> PositionsWhere(destHdf5, "seqname", arg).frame,
            list |-> <<>>]

SingleAccessors ==
    {"sample_gene_abundance", "sample_cag_abundance", "contigs_with_gene", "contig_df"}

\* C11: whatever calls and whatever use of earlier results came before, an
\* accessor call on a published container returns what a fresh read of the
\* container returns, so that two calls with the same arguments, on one
\* reader or on two, return identical results.
C11_CachedEqualsFresh ==
    lastSingle.op \in SingleAccessors /\ lastSingle.ok =>
        LET fresh == FreshSingle(lastSingle.op, lastSingle.arg, lastSingle.metric)
        IN  /\ lastSingle.series = fresh.series
            /\ lastSingle.frame = fresh.frame
            /\ lastSingle.list = fresh.list

\* The eggNOG step of the build, once it has returned
EggnogDone(i) ==
    /\ i = Len(steps) /\ pc = "close"
    /\ steps[i].step = "eggnog" /\ steps[i].ok

\* C12: after functional-annotation ingestion, eggnog_ko holds a (gene, ko)
\* row exactly for each comma-separated token of an input row whose KO field
\* is present, and eggnog_cluster holds a (gene, cluster) row exactly for
\* each input row that has a cluster; an absent field contributes no row.
C12_OnlyPresentLabels ==
    \A i \in 1..Len(steps) :
        EggnogDone(i) =>
            LET input == steps[i].recs
                ko == RowsOf(hdf5.data, Key("eggnog_ko"))
                cl == RowsOf(hdf5.data, Key("eggnog_cluster"))
            IN  /\ \A k \in 1..Len(ko) :
                     \E j \in 1..Len(input) :
                        /\ input[j].query_name = ko[k].gene
                        /\ input[j].KEGG_KOs.t = "str"
                        /\ ko[k].ko.s \in Range(Split(input[j].KEGG_KOs.s, <<>>))
                /\ \A j \in 1..Len(input) :
                     input[j].KEGG_KOs.t = "str" =>
                        \A tok \in Range(Split(input[j].KEGG_KOs.s, <<>>)) :
                           \E k \in 1..Len(ko) :
                              ko[k].gene = input[j].query_name /\ ko[k].ko = Str(tok)
                /\ \A k \in 1..Len(cl) :
                     \E j \in 1..Len(input) :
                        /\ input[j].query_name = cl[k].gene
                        /\ input[j].seed_eggNOG_ortholog = cl[k].eggnog_cluster
                        /\ ~IsNaN(input[j].seed_eggNOG_ortholog)
                /\ \A j \in 1..Len(input) :
                     ~IsNaN(input[j].seed_eggNOG_ortholog) =>
                        \E k \in 1..Len(cl) :
                           /\ cl[k].gene = input[j].query_name
                           /\ cl[k].eggnog_cluster = input[j].seed_eggNOG_ortholog

TableSteps == {"metadata", "taxonomy", "eggnog"}

HasMissingCell(rows) ==
    \E j \in 1..Len(rows) : \E c \in DOMAIN rows[j] : IsNaN(rows[j][c])

\* C13: no table the build wrote holds a missing value, and a build given a
\* per-sample record that lacks a required field, or a delimited-table row
\* with an empty cell, is aborted instead of persisting the value or a
\* default in its place.
C13_MissingValuesRejected ==
    /\ \A ds \in hdf5.data :
          ds.key \in written /\ ds.key.table \in TableSteps \cup {"eggnog_ko", "eggnog_cluster",
                                                                  "taxonomic_classification"}
             => ~HasMissingCell(ds.rows)
    /\ \A i \in 1..Len(steps) :
          /\ steps[i].step = "sample" /\ steps[i].input = "badrecord" => ~steps[i].ok
          /\ steps[i].step \in TableSteps /\ HasMissingCell(steps[i].recs) =>
                ~steps[i].ok /\ pc = "aborted"

\* The tables an ingestion step writes
OwnTables(step) ==
    CASE step = "cags"     -> {"cags"}
      [] step = "sample"   -> {"abundance", "cag_abundance"}
      [] step = "metadata" -> {"metadata"}
      [] step = "taxonomy" -> {"taxonomic_classification"}
      [] step = "eggnog"   -> {"eggnog_ko", "eggnog_cluster"}
      [] step = "repack"   -> {}

\* C14: a successful ingestion step only appends: every row a table of the
\* working copy held before the step is still in that table after it, and
\* every table other than the step's own is unchanged.
C14_StepsOnlyAppend ==
    [][ ( /\ Len(steps') = Len(steps) + 1
          /\ steps'[Len(steps')].ok )
        => \A ds \in hdf5.data :
              \E after \in hdf5'.data :
                 /\ after.key = ds.key
                 /\ \A k \in 1..Len(ds.rows) : ds.rows[k] \in Range(after.rows)
                 /\ ds.key.table \notin OwnTables(steps'[Len(steps')].step) => after = ds
      ]_vars

NoPopulateSource ==
    ~(args.cags \/ args.sheet \/ args.metadata \/ args.taxonomy \/ args.eggnog)

NothingBuilt ==
    /\ pc \in {"start", "rejected"}
    /\ pc = "rejected" => exit = "nonzero"
    /\ ~folder /\ ~hdf5.exists /\ ~destHdf5.exists /\ ~destLog

\* C15 as claimed: a build given none of the five populate sources is
\* rejected with no working copy created and nothing published, whether or
\* not a prior container to extend is given.
C15_RejectedWithoutSource == NoPopulateSource => NothingBuilt

\* C15, amended: a build given none of the five populate sources and no
\* prior container to extend is rejected with no working copy created and
\* nothing published; a build given only a prior container is not rejected
\* for its inputs.
C15_RejectedWithoutAnyInput ==
    /\ NoPopulateSource /\ args.prior = "none" => NothingBuilt
    /\ NoPopulateSource /\ args.prior # "none" /\ args.temp_exists => pc # "rejected"

C15_Witness ==
    /\ NoPopulateSource /\ args.prior = "none" /\ args.temp_exists
    /\ pc = "rejected" /\ exit = "nonzero"

\* The memoized entries of reader r, least recently used first
SampleEntriesOf(cache, r) == SelectSeq(cache, LAMBDA k : k.self = r)
ContigEntriesOf(cache, r) == SelectSeq(cache, LAMBDA e : e.key.self = r)

\* C16: each reader holds its own private cache: a call made on one reader
\* never adds, evicts or changes a memoized entry of another reader.
C16_PrivateCaches ==
    [][ calls' = calls + 1 =>
          \A r \in Readers \ {lastSingle'.self} :
             /\ SampleEntriesOf(sgaCache', r) = SampleEntriesOf(sgaCache, r)
             /\ SampleEntriesOf(scaCache', r) = SampleEntriesOf(scaCache, r)
             /\ ContigEntriesOf(cwgCache', r) = ContigEntriesOf(cwgCache, r)
             /\ ContigEntriesOf(cdCache', r) = ContigEntriesOf(cdCache, r)
      ]_vars

CacheBounds ==
    /\ Len(sgaCache) <= SampleCacheSize
    /\ Len(scaCache) <= SampleCacheSize
    /\ Len(cwgCache) <= ContigCacheSize
    /\ Len(cdCache) <= ContigCacheSize

\* The accessor whose cache a call goes through
AccessorOf(op) == IF op = "plot_single_contig" THEN "contig_df" ELSE op

BoundOf(acc) ==
    IF acc \in {"sample_gene_abundance", "sample_cag_abundance"}
    THEN SampleCacheSize ELSE ContigCacheSize

\* The keys memoized for accessor `acc`, least recently used first, given
\* the four caches
KeysOf(acc, sga, sca, cwg, cd) ==
    CASE acc = "sample_gene_abundance" -> sga
      [] acc = "sample_cag_abundance"  -> sca
      [] acc = "contigs_with_gene"     -> [i \in 1..Len(cwg) |-> cwg[i].key]
      [] acc = "contig_df"             -> [i \in 1..Len(cd) |-> cd[i].key]

\* The key of a call: the reader and the exact arguments
CallKey(call) ==
    IF AccessorOf(call.op) \in {"sample_gene_abundance", "sample_cag_abundance"}
    THEN [self |-> call.self, sample_id |-> call.arg, metric |-> call.metric]
    ELSE [self |-> call.self, arg |-> call.arg]

\* C17: the memoized entries of each single-item accessor never exceed its
\* bound (512 for the two sample accessors, 128 for the two contig
\* accessors); a call whose exact arguments are memoized reads nothing from
\* the container and keeps the entries; a successful call that is not
\* memoized is added as the most recent entry and, at the bound, the least
\* recently used entry is evicted; a call that raises memoizes nothing.
C17_BoundedLru ==
    /\ []CacheBounds
    /\ [][ calls' = calls + 1 =>
             LET call == lastSingle'
                 acc == AccessorOf(call.op)
                 key == CallKey(call)
                 before == KeysOf(acc, sgaCache, scaCache, cwgCache, cdCache)
                 after == KeysOf(acc, sgaCache', scaCache', cwgCache', cdCache')
                 others == SingleAccessors \ {acc}
             IN  /\ key \in Range(before) =>
                       /\ ~call.read
                       /\ after = Append(SelectSeq(before, LAMBDA k : k # key), key)
                 /\ key \notin Range(before) =>
                       /\ call.read
                       /\ call.op \in SingleAccessors /\ ~call.ok => after = before
                       /\ call.ok /\ Len(before) < BoundOf(acc) =>
                             after = Append(before, key)
                       /\ call.ok /\ Len(before) = BoundOf(acc) =>
                             after = Append(Tail(before), key)
                 /\ \A o \in others :
                       KeysOf(o, sgaCache', scaCache', cwgCache', cdCache')
                          = KeysOf(o, sgaCache, scaCache, cwgCache, cdCache)
         ]_vars

\* A miss at the bound of 512 has evicted the least recently used entry,
\* with the contig caches at their bound of 128
C17_Witness ==
    /\ lastSingle.op = "sample_gene_abundance" /\ lastSingle.ok /\ lastSingle.read
    /\ lastSingle.arg = BeyondSample
    /\ Len(sgaCache) = SampleCacheSize
    /\ sgaCache[Len(sgaCache)] = CallKey(lastSingle)
    /\ [self |-> "r1", sample_id |-> FirstSample, metric |-> "None"] \notin Range(sgaCache)
    /\ Len(cdCache) = ContigCacheSize /\ Len(cwgCache) = ContigCacheSize

\* The two ends the state machine of a build has
CleanedUp ==
    /\ pc = "done" /\ exit = "zero"
    /\ ~folder /\ ~hdf5.exists
    /\ destHdf5.exists /\ destHdf5.packed /\ destLog

Aborted ==
    /\ exit = "nonzero"
    /\ ~folder /\ ~hdf5.exists

\* C18: a build that has ended is in exactly one of CleanedUp (populated,
\* then repacked, then published: the repacked container and the log at
\* their destinations, the working folder removed) or Aborted (the working
\* folder removed, non-zero status).
C18_EndsCleanedUpOrAborted ==
    /\ exit # "running" => (CleanedUp /\ ~Aborted) \/ (Aborted /\ ~CleanedUp)
    /\ pc = "done" =>
          /\ Len(steps) > 0
          /\ steps[Len(steps)].step = "repack" /\ steps[Len(steps)].ok
          /\ \A i \in 1..(Len(steps) - 1) : steps[i].step # "repack" /\ steps[i].ok

\* C19: after a successful build each (sample, gene id) pair occurs at most
\* once in the abundance table.
C19_UniquePairs ==
    pc = "done" =>
        LET rows == RowsOf(destHdf5.data, Key("abundance"))
        IN  \A i, j \in 1..Len(rows) :
               rows[i].sample = rows[j].sample /\ rows[i].id = rows[j].id => i = j

\* No build that ingested a sample ends successfully, and no build appends a
\* row to the abundance table: the cases C19 names (colliding raw names, a
\* sample the extended container already holds) never reach a published table.
C19_NoSampleIsEverStored ==
    /\ \A i \in 1..Len(steps) : steps[i].step = "sample" => ~steps[i].ok
    /\ Key("abundance") \notin written
    /\ pc = "done" => \A i \in 1..Len(steps) : steps[i].step # "sample"

====
